---- MODULE Spec2Model ----
(***************************************************************************)
(* PyForks: the Region client (region.py) and the TrailforksUser scraper   *)
(* (trailforks_user.py) as state machines.  One call of a public method is *)
(* a run from Call to "returned", "raised" (an uncaught Python exception)  *)
(* or "exited" (the process ended); every HTTP request is one step whose   *)
(* response is chosen by the remote site.                                  *)
(***************************************************************************)
EXTENDS Integers, Sequences, FiniteSets, TLC

VARIABLES
    credentials,         \* what the client was constructed with: "none" | "invalid" | "valid"
    cookie,              \* self.cookie is present
    remote_total,        \* how many regions the remote index lists during a bulk listing
    op,                  \* the public method being called
    pc,                  \* position inside the call
    inner,               \* TRUE while get_region_ridecounts runs its nested get_region_info
    args,                \* the call's arguments
    requests,            \* the HTTP requests the call has issued, in order
    region_id,           \* local of the fetchers
    total_ridelogs,      \* local of get_region_ridecounts
    page_number,         \* local of the paginated fetchers
    enumerated_results,  \* local of get_region_ridecounts / get_all_trailforks_regions
    dfs,                 \* the pages accumulated so far
    result,              \* the value the call returned
    raised,              \* the exceptions raised in the call, in order
    exit_status          \* the process's exit status once pc = "exited"

vars == <<credentials, cookie, remote_total, op, pc, inner, args, requests, region_id,
          total_ridelogs, page_number, enumerated_results, dfs, result, raised,
          exit_status>>

session == <<credentials, cookie>>
locals == <<region_id, total_ridelogs, page_number, enumerated_results, dfs>>

(***************************************************************************)
(* Bounds of the model                                                     *)
(***************************************************************************)
MaxMatches == 2       \* records the region index returns for one alias
MaxPulls == 2         \* the largest reported total needs this many ride-count pages
MaxPages == 2         \* largest caller-supplied `pages`
MaxPageRows == 2      \* rows in one ride-log / trail page of the model
MaxLocationLen == 5   \* characters of a profile's location text
MaxLinks == 2         \* links handed to _parse_ride_ids
MaxRideIds == 3       \* ids handed to rescan_ridelogs_for_badges
MaxGearRows == 2      \* rows of the bikes table

(***************************************************************************)
(* Program constants                                                       *)
(***************************************************************************)
ridecounts_rows_per_pull == 500
ridelogs_rows_per_pull == 100
trails_rows == 100
number_of_regions == 40000
results_per_page == 500
HTTP_UNAUTHORIZED == 401
SecondsPerDay == 86400
RideIdDigits == 8

NoRegionId == 0

(***************************************************************************)
(* The remote site and the local reference table                           *)
(***************************************************************************)
Aliases == {"lebanon-hills", "buck-hill-52165", "bullcrap_region", "fake_004957856934"}

\* the aliases the remote region index holds
RemoteIndex == {"lebanon-hills", "buck-hill-52165"}

\* the alias -> rid rows of the local parquet file (it may lag the remote index:
\* one valid alias is missing from it, one alias it holds is no longer valid)
LocalTable == [a \in {"lebanon-hills", "fake_004957856934"} |->
                  IF a = "lebanon-hills" THEN 3137 ELSE 20367]

\* what GET /regions?filter=alias::<region> can answer: the index records with that alias
RegionsQueryData(region) ==
    IF region \in RemoteIndex
    THEN UNION {[1..n -> {[alias |-> region]}] : n \in 1..MaxMatches}
    ELSE {<<>>}

\* the statuses a response carries: success, or unauthorized
StatusCodes == {200, HTTP_UNAUTHORIZED}

\* `created` values (epoch seconds) the site reports: the last second of 1970-01-31,
\* and the first and the last second of 1970-02-01
Timestamps == {2678399, 2678400, 2764799}

RECURSIVE SumOver(_, _)
SumOver(f, S) ==
    IF S = {} THEN 0
    ELSE LET x == CHOOSE y \in S : TRUE IN f[x] + SumOver(f, S \ {x})

\* a ride-count page is kept as its rows' `created` values with multiplicity
RowCounts == {0, 1, ridecounts_rows_per_pull}
RidecountPages ==
    {b \in [Timestamps -> RowCounts] : SumOver(b, Timestamps) <= ridecounts_rows_per_pull}

\* a ride-log or trail page is the sequence of its rows' `created` values
LogTimestamps == {86399, 86400}
RowPages == UNION {[1..n -> LogTimestamps] : n \in 0..MaxPageRows}

\* the `ridden` values region info can report
Totals ==
    {0, 1} \cup {k * ridecounts_rows_per_pull : k \in 1..MaxPulls}
           \cup {k * ridecounts_rows_per_pull + 1 : k \in 1..(MaxPulls - 1)}

\* the sizes the whole region index can have (for the bulk listing)
RemoteRegionTotals == {0, 700, 40500}

(***************************************************************************)
(* Dates (pandas / datetime formatting)                                    *)
(***************************************************************************)
\* the local time zones of the process, seconds east of UTC
UtcOffsets == {-21600, 0}

DigitChars == <<"0", "1", "2", "3", "4", "5", "6", "7", "8", "9">>

Ord(c) == IF c = " " THEN 32
          ELSE IF c = "-" THEN 45
          ELSE IF c = "/" THEN 47
          ELSE 47 + (CHOOSE i \in 1..10 : DigitChars[i] = c)

DigitValue(c) == (CHOOSE i \in 1..10 : DigitChars[i] = c) - 1

Pad2(n) == <<DigitChars[((n \div 10) % 10) + 1], DigitChars[(n % 10) + 1]>>
Pad4(n) == Pad2(n \div 100) \o Pad2(n % 100)

\* the proleptic Gregorian date of a day number (days since 1970-01-01)
CivilFromDays(days) ==
    LET z == days + 719468
        era == z \div 146097
        doe == z - era * 146097
        yoe == (doe - (doe \div 1460) + (doe \div 36524) - (doe \div 146096)) \div 365
        doy == doe - (365 * yoe + (yoe \div 4) - (yoe \div 100))
        mp == (5 * doy + 2) \div 153
        d == doy - ((153 * mp + 2) \div 5) + 1
        m == IF mp < 10 THEN mp + 3 ELSE mp - 9
        y == yoe + era * 400 + (IF m <= 2 THEN 1 ELSE 0)
    IN [year |-> y, month |-> m, day |-> d]

DaysFromCivil(year, month, day) ==
    LET y == IF month <= 2 THEN year - 1 ELSE year
        era == y \div 400
        yoe == y - era * 400
        mp == IF month > 2 THEN month - 3 ELSE month + 9
        doy == ((153 * mp + 2) \div 5) + day - 1
        doe == yoe * 365 + (yoe \div 4) - (yoe \div 100) + doy
    IN era * 146097 + doe - 719468

\* pd.to_datetime(created, unit="s").dt.strftime("%Y-%m-%d")
StrftimeYmd(created) ==
    LET c == CivilFromDays(created \div SecondsPerDay)
    IN Pad4(c.year) \o <<"-">> \o Pad2(c.month) \o <<"-">> \o Pad2(c.day)

\* datetime.fromtimestamp(epoch).strftime("%m/%d/%Y"), in the process's time zone
get_date_string(created, utc_offset) ==
    LET c == CivilFromDays((created + utc_offset) \div SecondsPerDay)
    IN Pad2(c.month) \o <<"/">> \o Pad2(c.day) \o <<"/">> \o Pad4(c.year)

\* Python's str ordering on the date strings
RECURSIVE StrLess(_, _)
StrLess(a, b) ==
    IF Len(b) = 0 THEN FALSE
    ELSE IF Len(a) = 0 THEN TRUE
    ELSE IF Ord(Head(a)) # Ord(Head(b)) THEN Ord(Head(a)) < Ord(Head(b))
    ELSE StrLess(Tail(a), Tail(b))

\* pd.to_datetime("YYYY-MM-DD")
ParseYmd(s) ==
    [year |-> 1000 * DigitValue(s[1]) + 100 * DigitValue(s[2])
              + 10 * DigitValue(s[3]) + DigitValue(s[4]),
     month |-> 10 * DigitValue(s[6]) + DigitValue(s[7]),
     day |-> 10 * DigitValue(s[9]) + DigitValue(s[10])]

month_abbr == <<"Jan", "Feb", "Mar", "Apr", "May", "Jun",
                "Jul", "Aug", "Sep", "Oct", "Nov", "Dec">>
day_name == <<"Monday", "Tuesday", "Wednesday", "Thursday",
              "Friday", "Saturday", "Sunday">>

(***************************************************************************)
(* Exceptions                                                              *)
(***************************************************************************)
\* PyForks.exceptions: InvalidRegion and RegionLockedAPI end the process
FatalExitStatus == 1

Fatal(exc) ==
    /\ pc' = "exited"
    /\ raised' = Append(raised, exc)
    /\ exit_status' = FatalExitStatus
    /\ UNCHANGED result

\* any other exception propagates to the caller
Raise(exc) ==
    /\ pc' = "raised"
    /\ raised' = Append(raised, exc)
    /\ UNCHANGED <<result, exit_status>>

Return(value) ==
    /\ pc' = "returned"
    /\ result' = value
    /\ UNCHANGED <<raised, exit_status>>

Goto(label) ==
    /\ pc' = label
    /\ UNCHANGED <<result, raised, exit_status>>

NoResult == [kind |-> "none"]

(***************************************************************************)
(* Region: pure parts                                                      *)
(***************************************************************************)
is_valid_region_eq1(r_json_data) ==
    IF Len(r_json_data) = 1 THEN TRUE ELSE FALSE

is_valid_region(r_json_data) ==
    IF Len(r_json_data) = 0 THEN FALSE ELSE TRUE

_handle_status_code_403(status_code) == status_code = 403

\* TRUE when _handle_status_code raises RegionLockedAPI
_handle_status_code(status_code) == status_code = HTTP_UNAUTHORIZED

\* the loop conditions of the three paginated fetchers
RidecountsContinue_le == enumerated_results <= total_ridelogs
RidecountsContinue == enumerated_results < total_ridelogs
RidelogsContinue_until_empty ==
    page_number < args.pages /\ (IF dfs = <<>> THEN TRUE ELSE dfs[Len(dfs)] # <<>>)
RidelogsContinue == page_number < args.pages
AllRegionsContinue_lt == enumerated_results < number_of_regions
AllRegionsContinue == enumerated_results <= number_of_regions

\* pd.concat of ride-count pages
ConcatCounts(pages) ==
    [t \in Timestamps |-> SumOver([i \in 1..Len(pages) |-> pages[i][t]], 1..Len(pages))]

\* pd.concat(dfs, ignore_index=True) of row pages
RECURSIVE ConcatRows(_)
ConcatRows(pages) ==
    IF pages = <<>> THEN <<>> ELSE Head(pages) \o ConcatRows(Tail(pages))

GroupKey_hour(created) ==
    StrftimeYmd(created) \o <<" ">> \o Pad2((created % SecondsPerDay) \div 3600)

\* the key get_region_ridecounts groups on
GroupKey(created) == StrftimeYmd(created)

\* df.groupby(['date'])['date'].count()
GroupCount(df, date) ==
    SumOver(df, {t \in Timestamps : GroupKey(t) = date})

\* TRUE when key a is placed before key b by .sort_index(ascending=False)
SortBefore(a, b) == StrLess(b, a)

RECURSIVE SortIndex(_)
SortIndex(keys) ==
    IF keys = {} THEN <<>>
    ELSE LET first == CHOOSE k \in keys : \A o \in keys \ {k} : SortBefore(k, o)
         IN <<first>> \o SortIndex(keys \ {first})

\* lines 98-99: the per-day count table
RideCountTable(df) ==
    LET dates == {GroupKey(t) : t \in {u \in Timestamps : df[u] > 0}}
        index == SortIndex(dates)
    IN [i \in 1..Len(index) |-> [date |-> index[i], rides |-> GroupCount(df, index[i])]]

__enrich_ridecounts(t_df) ==
    [i \in 1..Len(t_df) |->
        LET d == ParseYmd(t_df[i].date)
            weekday_num == (DaysFromCivil(d.year, d.month, d.day) + 3) % 7
        IN [date |-> d, rides |-> t_df[i].rides,
            year |-> d.year, month |-> d.month, day |-> d.day,
            weekday_num |-> weekday_num, weekday |-> day_name[weekday_num + 1],
            month_name |-> month_abbr[d.month]]]

RidelogRows(rows, utc_offset) ==
    [i \in 1..Len(rows) |->
        [created |-> rows[i], date |-> get_date_string(rows[i], utc_offset)]]

\* the page GET /regions?rows=500&page=p answers when the index holds `total` regions
RegionsPage(total, p) ==
    LET left == total - p * results_per_page
    IN [first |-> p * results_per_page,
        count |-> IF left <= 0 THEN 0
                  ELSE IF left < results_per_page THEN left ELSE results_per_page]

(***************************************************************************)
(* Region: the calls                                                       *)
(***************************************************************************)
RegionOps == {"is_valid_region", "check_region", "get_region_ridecounts",
              "get_all_region_trails", "get_all_region_ridelogs",
              "get_region_info", "get_all_trailforks_regions"}

\* the methods under the @authentication decorator
Decorated == {"get_region_ridecounts", "get_all_region_trails",
              "get_all_region_ridelogs", "get_region_info",
              "get_all_trailforks_regions"}

\* a new call starts on an idle client
Callable == pc = "idle"

\* login(): exchange the credentials for a session cookie, or end the process
login ==
    /\ Callable
    /\ ~cookie
    /\ op' = "login"
    /\ IF credentials = "valid"
       THEN cookie' = TRUE /\ Goto("idle")
       ELSE Fatal("AuthenticationError") /\ UNCHANGED cookie
    /\ requests' = Append(requests, [endpoint |-> "login"])
    /\ UNCHANGED <<credentials, remote_total, inner, args, locals>>

ResetCall ==
    /\ requests' = <<>>
    /\ region_id' = NoRegionId
    /\ total_ridelogs' = 0
    /\ page_number' = 0
    /\ enumerated_results' = 0
    /\ dfs' = <<>>
    /\ result' = NoResult
    /\ raised' = <<>>
    /\ inner' = FALSE
    /\ UNCHANGED <<session, exit_status>>

CallRegion ==
    /\ Callable
    /\ \E o \in RegionOps, region \in Aliases, pages \in 0..MaxPages,
          total \in RemoteRegionTotals :
        /\ op' = o
        /\ args' = [region |-> IF o = "get_all_trailforks_regions" THEN "" ELSE region,
                    pages |-> IF o = "get_all_region_ridelogs" THEN pages ELSE 0]
        /\ remote_total' = IF o = "get_all_trailforks_regions" THEN total ELSE 0
        /\ pc' = IF o \in Decorated THEN "auth"
                 ELSE IF o = "check_region" THEN "check" ELSE "query"
    /\ ResetCall

\* the @authentication decorator: sign in before the method body runs
Authentication ==
    /\ pc = "auth"
    /\ IF cookie
       THEN /\ Goto(IF op = "get_all_trailforks_regions" THEN "loop" ELSE "check")
            /\ UNCHANGED <<cookie, requests>>
       ELSE IF credentials = "valid"
       THEN /\ cookie' = TRUE
            /\ requests' = Append(requests, [endpoint |-> "login"])
            /\ Goto(IF op = "get_all_trailforks_regions" THEN "loop" ELSE "check")
       ELSE /\ Fatal("AuthenticationError")
            /\ UNCHANGED <<cookie, requests>>
    /\ UNCHANGED <<credentials, remote_total, op, inner, args, locals>>

RegionsQuery(region, r_json_data) ==
    [endpoint |-> "regions", filter |-> <<"alias", region>>, data |-> r_json_data]

\* is_valid_region called directly
IsValidRegion ==
    /\ pc = "query"
    /\ op = "is_valid_region"
    /\ \E r_json_data \in RegionsQueryData(args.region) :
        /\ requests' = Append(requests, RegionsQuery(args.region, r_json_data))
        /\ Return([kind |-> "bool", value |-> is_valid_region(r_json_data)])
    /\ UNCHANGED <<session, remote_total, op, inner, args, locals>>

CheckRegion_returns_false ==
    /\ pc = "check"
    /\ \E r_json_data \in RegionsQueryData(args.region) :
        /\ requests' = Append(requests, RegionsQuery(args.region, r_json_data))
        /\ IF ~is_valid_region(r_json_data)
           THEN Return([kind |-> "bool", value |-> FALSE])
           ELSE IF op = "check_region"
           THEN Return([kind |-> "bool", value |-> TRUE])
           ELSE Goto("lookup")
    /\ UNCHANGED <<session, remote_total, op, inner, args, locals>>

CheckRegion_result_unused ==
    /\ pc = "check"
    /\ \E r_json_data \in RegionsQueryData(args.region) :
        /\ requests' = Append(requests, RegionsQuery(args.region, r_json_data))
        /\ IF op = "check_region"
           THEN IF ~is_valid_region(r_json_data)
                THEN Fatal("InvalidRegion")
                ELSE Return([kind |-> "bool", value |-> TRUE])
           ELSE Goto("lookup")
    /\ UNCHANGED <<session, remote_total, op, inner, args, locals>>

\* check_region, called directly or as the first statement of a fetcher
CheckRegion ==
    /\ pc = "check"
    /\ \E r_json_data \in RegionsQueryData(args.region) :
        /\ requests' = Append(requests, RegionsQuery(args.region, r_json_data))
        /\ IF ~is_valid_region(r_json_data)
           THEN Fatal("InvalidRegion")
           ELSE IF op = "check_region"
           THEN Return([kind |-> "bool", value |-> TRUE])
           ELSE Goto("lookup")
    /\ UNCHANGED <<session, remote_total, op, inner, args, locals>>

get_region_id_by_alias ==
    /\ pc = "lookup"
    /\ IF args.region \notin DOMAIN LocalTable
       THEN /\ Raise("ValueError")
            /\ UNCHANGED <<region_id, inner>>
       ELSE /\ region_id' = LocalTable[args.region]
            /\ IF op = "get_region_ridecounts" /\ ~inner
               THEN inner' = TRUE /\ Goto("auth")
               ELSE /\ UNCHANGED inner
                    /\ Goto(CASE op \in {"get_region_ridecounts", "get_region_info"} -> "info"
                              [] op = "get_all_region_trails" -> "trails"
                              [] op = "get_all_region_ridelogs" -> "loop")
    /\ UNCHANGED <<session, remote_total, op, args, requests, total_ridelogs,
                   page_number, enumerated_results, dfs>>

\* the request of get_region_info, called directly or from get_region_ridecounts
get_region_info ==
    /\ pc = "info"
    /\ \E response \in ({HTTP_UNAUTHORIZED} \X {0}) \cup ((StatusCodes \ {HTTP_UNAUTHORIZED}) \X Totals) :
        LET status_code == response[1]
            ridden == response[2]
        IN
        /\ requests' = Append(requests,
               [endpoint |-> "region", id |-> region_id, status |-> status_code])
        /\ IF _handle_status_code(status_code)
           THEN Fatal("RegionLockedAPI") /\ UNCHANGED <<total_ridelogs, inner>>
           ELSE IF inner
           THEN total_ridelogs' = ridden /\ inner' = FALSE /\ Goto("loop")
           ELSE /\ Return([kind |-> "region_info", ridden |-> ridden])
                /\ UNCHANGED <<total_ridelogs, inner>>
    /\ UNCHANGED <<session, remote_total, op, args, region_id, page_number,
                   enumerated_results, dfs>>

PageRequest(endpoint, rows) ==
    [endpoint |-> endpoint, rows |-> rows, page |-> page_number]

\* one iteration of the while loop of get_region_ridecounts
RidecountsPage ==
    /\ pc = "loop"
    /\ op = "get_region_ridecounts"
    /\ RidecountsContinue
    /\ \E status_code \in StatusCodes, url_json_data \in RidecountPages :
        /\ status_code = HTTP_UNAUTHORIZED => \A t \in Timestamps : url_json_data[t] = 0
        /\ requests' = Append(requests,
               PageRequest("ridelogs", ridecounts_rows_per_pull) @@ [status |-> status_code])
        /\ IF _handle_status_code(status_code)
           THEN Fatal("RegionLockedAPI") /\ UNCHANGED <<dfs, page_number, enumerated_results>>
           ELSE /\ dfs' = Append(dfs, url_json_data)
                /\ page_number' = page_number + 1
                /\ enumerated_results' = enumerated_results + ridecounts_rows_per_pull
                /\ Goto("loop")
    /\ UNCHANGED <<session, remote_total, op, inner, args, region_id,
                   total_ridelogs>>

\* lines 97-100: concatenate, group by day, enrich
RidecountsFinish ==
    /\ pc = "loop"
    /\ op = "get_region_ridecounts"
    /\ ~RidecountsContinue
    /\ IF dfs = <<>>
       THEN Raise("ValueError")     \* pd.concat: no objects to concatenate
       ELSE LET df == ConcatCounts(dfs) IN
            IF \A t \in Timestamps : df[t] = 0
            THEN Raise("KeyError")  \* no `created` column in an empty frame
            ELSE Return([kind |-> "ridecounts",
                         rows |-> __enrich_ridecounts(RideCountTable(df))])
    /\ UNCHANGED <<session, remote_total, op, inner, args, requests, locals>>

get_all_region_trails ==
    /\ pc = "trails"
    /\ \E status_code \in StatusCodes, url_json_data \in RowPages :
        /\ status_code = HTTP_UNAUTHORIZED => url_json_data = <<>>
        /\ requests' = Append(requests,
               [endpoint |-> "trails", rows |-> trails_rows, rid |-> region_id,
                status |-> status_code])
        /\ IF _handle_status_code(status_code)
           THEN Fatal("RegionLockedAPI")
           ELSE Return([kind |-> "trails", rows |-> url_json_data])
    /\ UNCHANGED <<session, remote_total, op, inner, args, locals>>

\* one iteration of the for loop of get_all_region_ridelogs
RidelogsPage ==
    /\ pc = "loop"
    /\ op = "get_all_region_ridelogs"
    /\ RidelogsContinue
    /\ \E status_code \in StatusCodes, url_json_data \in RowPages :
        /\ status_code = HTTP_UNAUTHORIZED => url_json_data = <<>>
        /\ requests' = Append(requests,
               PageRequest("ridelogs", ridelogs_rows_per_pull)
                   @@ [status |-> status_code, data |-> url_json_data])
        /\ IF _handle_status_code(status_code)
           THEN Fatal("RegionLockedAPI") /\ UNCHANGED <<dfs, page_number>>
           ELSE /\ dfs' = Append(dfs, url_json_data)
                /\ page_number' = page_number + 1
                /\ Goto("loop")
    /\ UNCHANGED <<session, remote_total, op, inner, args, region_id,
                   total_ridelogs, enumerated_results>>

\* lines 186-188: concatenate and add the date column
RidelogsFinish ==
    /\ pc = "loop"
    /\ op = "get_all_region_ridelogs"
    /\ ~RidelogsContinue
    /\ IF dfs = <<>>
       THEN Raise("ValueError")     \* pd.concat: no objects to concatenate
       ELSE LET final_df == ConcatRows(dfs) IN
            IF final_df = <<>>
            THEN \* assigning the empty apply() result: accepted or refused, by pandas version
                 \/ Return([kind |-> "ridelogs", rows |-> <<>>])
                 \/ Raise("ValueError")
            ELSE \E utc_offset \in UtcOffsets :
                    Return([kind |-> "ridelogs", rows |-> RidelogRows(final_df, utc_offset)])
    /\ UNCHANGED <<session, remote_total, op, inner, args, requests, locals>>

\* one iteration of the while loop of get_all_trailforks_regions
AllRegionsPage ==
    /\ pc = "loop"
    /\ op = "get_all_trailforks_regions"
    /\ AllRegionsContinue
    /\ \E status_code \in StatusCodes :
        /\ requests' = Append(requests,
               PageRequest("regions", results_per_page) @@ [status |-> status_code])
        /\ IF _handle_status_code(status_code)
           THEN Fatal("RegionLockedAPI") /\ UNCHANGED <<dfs, page_number, enumerated_results>>
           ELSE /\ dfs' = Append(dfs, RegionsPage(remote_total, page_number))
                /\ page_number' = page_number + 1
                /\ enumerated_results' = enumerated_results + results_per_page
                /\ Goto("loop")
    /\ UNCHANGED <<session, remote_total, op, inner, args, region_id,
                   total_ridelogs>>

AllRegionsFinish ==
    /\ pc = "loop"
    /\ op = "get_all_trailforks_regions"
    /\ ~AllRegionsContinue
    /\ Return([kind |-> "regions", pages |-> dfs])
    /\ UNCHANGED <<session, remote_total, op, inner, args, requests, locals>>

(***************************************************************************)
(* The Region client                                                       *)
(***************************************************************************)
Init ==
    /\ credentials \in {"none", "invalid", "valid"}
    /\ cookie = FALSE
    /\ remote_total = 0
    /\ op = "none"
    /\ pc = "idle"
    /\ inner = FALSE
    /\ args = [region |-> "", pages |-> 0]
    /\ requests = <<>>
    /\ region_id = NoRegionId
    /\ total_ridelogs = 0
    /\ page_number = 0
    /\ enumerated_results = 0
    /\ dfs = <<>>
    /\ result = NoResult
    /\ raised = <<>>
    /\ exit_status = 0

Next ==
    \/ login
    \/ CallRegion
    \/ Authentication
    \/ IsValidRegion
    \/ CheckRegion
    \/ get_region_id_by_alias
    \/ get_region_info
    \/ RidecountsPage
    \/ RidecountsFinish
    \/ get_all_region_trails
    \/ RidelogsPage
    \/ RidelogsFinish
    \/ AllRegionsPage
    \/ AllRegionsFinish

Spec == Init /\ [][Next]_vars

(***************************************************************************)
(* TrailforksUser: strings                                                 *)
(***************************************************************************)
IsSpace(c) == c \in {" ", "\n", "\t"}

RECURSIVE LStrip(_)
LStrip(s) == IF s # <<>> /\ IsSpace(Head(s)) THEN LStrip(Tail(s)) ELSE s

RECURSIVE RStrip(_)
RStrip(s) ==
    IF s # <<>> /\ IsSpace(s[Len(s)]) THEN RStrip(SubSeq(s, 1, Len(s) - 1)) ELSE s

\* str.strip()
Strip(s) == RStrip(LStrip(s))

\* str.split(",")
RECURSIVE Split(_)
Split(s) ==
    IF \A i \in 1..Len(s) : s[i] # ","
    THEN <<s>>
    ELSE LET i == CHOOSE k \in 1..Len(s) :
                      s[k] = "," /\ \A m \in 1..(k - 1) : s[m] # ","
         IN <<SubSeq(s, 1, i - 1)>> \o Split(SubSeq(s, i + 1, Len(s)))

unknown == <<"u", "n", "k", "n", "o", "w", "n">>
USA == <<"U", "S", "A">>

LocationAlphabet == {"a", "b", " ", ","}
LocationTexts == UNION {[1..n -> LocationAlphabet] : n \in 0..MaxLocationLen}

\* the profile page: whether it has a li.location element, and that element's text
ProfilePages ==
    {[location |-> FALSE, text |-> <<>>]}
        \cup {[location |-> TRUE, text |-> t] : t \in LocationTexts}

Triple(city, state, country) == [city |-> city, state |-> state, country |-> country]

__get_user_city_state_country_keeps_state(page) ==
    IF ~page.location
    THEN Triple(unknown, unknown, unknown)
    ELSE LET parts == Split(Strip(page.text)) IN
         IF Len(parts) = 2
         THEN Triple(Strip(parts[1]), Strip(parts[2]), USA)
         ELSE IF Len(parts) = 3
         THEN Triple(Strip(parts[1]), Strip(parts[2]), Strip(parts[3]))
         ELSE Triple(unknown, Strip(page.text), unknown)

\* lines 140-161, after the profile page has been fetched
__get_user_city_state_country(page) ==
    IF ~page.location
    THEN Triple(unknown, unknown, unknown)       \* AttributeError: find() gave None
    ELSE LET parts == Split(Strip(page.text)) IN
         IF Len(parts) = 2
         THEN Triple(Strip(parts[1]), Strip(parts[2]), USA)
         ELSE IF Len(parts) = 3                  \* ValueError, second unpacking
         THEN Triple(Strip(parts[1]), unknown, Strip(parts[3]))
         ELSE Triple(unknown, Strip(page.text), unknown)

(***************************************************************************)
(* TrailforksUser: ride ids                                                *)
(***************************************************************************)
IsDigit(c) == \E i \in 1..10 : DigitChars[i] = c

view_slash == <<"v", "i", "e", "w", "/">>

\* the pattern view\/(\d{8})/ matches the text at position i; `anchored` adds the
\* final $: the end of the text, or the newline that ends the text
MatchAt(link, i, anchored) ==
    LET last == i + Len(view_slash) + RideIdDigits IN
    /\ last <= Len(link)
    /\ SubSeq(link, i, i + Len(view_slash) - 1) = view_slash
    /\ \A k \in (i + Len(view_slash))..(last - 1) : IsDigit(link[k])
    /\ link[last] = "/"
    /\ anchored =>
          \/ last = Len(link)
          \/ last + 1 = Len(link) /\ link[last + 1] = "\n"

Group1(link, i) ==
    SubSeq(link, i + Len(view_slash), i + Len(view_slash) + RideIdDigits - 1)

NoMatch == <<"None">>

rex_search_unanchored(link) ==
    IF \E i \in 1..Len(link) : MatchAt(link, i, FALSE)
    THEN Group1(link, CHOOSE i \in 1..Len(link) :
                          /\ MatchAt(link, i, FALSE)
                          /\ \A k \in 1..(i - 1) : ~MatchAt(link, k, FALSE))
    ELSE NoMatch

\* rex.search(link) with rex = view\/(\d{8})/$ : group 1 of the leftmost match
rex_search(link) ==
    IF \E i \in 1..Len(link) : MatchAt(link, i, TRUE)
    THEN Group1(link, CHOOSE i \in 1..Len(link) :
                          /\ MatchAt(link, i, TRUE)
                          /\ \A k \in 1..(i - 1) : ~MatchAt(link, k, TRUE))
    ELSE NoMatch

RECURSIVE _parse_ride_ids(_)
_parse_ride_ids(ridelog_links) ==
    IF ridelog_links = <<>> THEN <<>>
    ELSE LET m == rex_search(Head(ridelog_links)) IN
         (IF m = NoMatch THEN <<>> ELSE <<m>>)   \* AttributeError: search() gave None
             \o _parse_ride_ids(Tail(ridelog_links))

ridelog_view == <<"r", "i", "d", "e", "l", "o", "g", "/">> \o view_slash

LinkBodies ==
    {<<"2", "0", "3", "6", "7", "8", "9", "0">>,
     <<"1", "2", "3", "4", "5", "6", "7", "8">>,
     <<"2", "0", "3", "6", "7", "8", "9">>,
     <<"2", "0", "3", "6", "7", "8", "9", "0", "1">>,
     <<"2", "0", "3", "6", "7", "8", "9", "a">>,
     <<"a", "b", "c">>}

LinkEndings ==
    {<<"/">>, <<>>, <<"/", "\n">>, <<"/", "r", "e", "s", "c", "a", "n", "/">>}

\* the links handed to _parse_ride_ids
Links ==
    {ridelog_view \o b \o e : b \in LinkBodies, e \in LinkEndings}
        \cup {view_slash \o <<"1", "2", "3", "4", "5", "6", "7", "8", "/">>
                  \o view_slash \o <<"2", "0", "3", "6", "7", "8", "9", "0", "/">>,
              <<"v", "i", "e", "/", "2", "0", "3", "6", "7", "8", "9", "0", "/">>}

LinkLists == UNION {[1..n -> Links] : n \in 0..MaxLinks}

(***************************************************************************)
(* TrailforksUser: gear                                                    *)
(***************************************************************************)
NaN == "NaN"

GearRows == [brand : {"Trek", "Yeti"}, model : {"Fuel EX", NaN}]

\* the bikes page: no table at all, or one table with some of the columns
BikesPages ==
    {[table |-> FALSE, columns |-> {}, rows |-> <<>>]}
        \cup {[table |-> TRUE, columns |-> c, rows |-> r] :
                 c \in {{"brand", "model"}, {"brand", "year"}, {"model", "year"}},
                 r \in UNION {[1..n -> GearRows] : n \in 0..MaxGearRows}}

\* list(zip(df.brand, df.model)) of the rows whose model is not NaN
GearPairs(rows) ==
    LET kept == SelectSeq(rows, LAMBDA row : row.model # NaN)
    IN [i \in 1..Len(kept) |-> <<kept[i].brand, kept[i].model>>]

(***************************************************************************)
(* TrailforksUser: the calls                                               *)
(***************************************************************************)
UserOps == {"get_user_info", "_parse_ride_ids", "rescan_ridelogs_for_badges",
            "get_user_gear"}

RideIds == {<<"2", "0", "3", "6", "7", "8", "9", "0">>, <<" ", "7", " ">>}
RideIdLists == UNION {[1..n -> RideIds] : n \in 0..MaxRideIds}

UserArgs(o) ==
    CASE o = "_parse_ride_ids" -> {[ridelog_links |-> l] : l \in LinkLists}
      [] o = "rescan_ridelogs_for_badges" -> {[ride_ids |-> l] : l \in RideIdLists}
      [] OTHER -> {[none |-> TRUE]}

CallUser ==
    /\ Callable
    /\ \E o \in UserOps : \E a \in UserArgs(o) :
        /\ op' = o
        /\ args' = a
        /\ pc' = CASE o = "get_user_info" -> "recent"
                   [] o = "_parse_ride_ids" -> "parse"
                   [] o = "rescan_ridelogs_for_badges" -> "rescan"
                   [] o = "get_user_gear" -> "check_cookie"
    /\ ResetCall
    /\ UNCHANGED remote_total

RecentRidePages == {[table |-> FALSE, location |-> <<>>],
                    [table |-> TRUE, location |-> <<"Lebanon Hills", "Buck Hill">>]}

\* __get_user_recent_rides: the ride-log table's locations, [] when there is no table
GetUserRecentRides ==
    /\ pc = "recent"
    /\ \E page \in RecentRidePages :
        /\ requests' = Append(requests, [endpoint |-> "profile/ridelog"])
        /\ dfs' = IF page.table THEN page.location ELSE <<>>   \* ValueError: no tables
        /\ Goto("profile")
    /\ UNCHANGED <<session, remote_total, op, inner, args, region_id, total_ridelogs,
                   page_number, enumerated_results>>

\* get_user_info, from the profile request on
get_user_info ==
    /\ pc = "profile"
    /\ \E page \in ProfilePages :
        /\ requests' = Append(requests, [endpoint |-> "profile", page |-> page])
        /\ Return([kind |-> "user_data",
                   location |-> __get_user_city_state_country(page),
                   recent_ride_locations |-> dfs])
    /\ UNCHANGED <<session, remote_total, op, inner, args, locals>>

ParseRideIds ==
    /\ pc = "parse"
    /\ Return([kind |-> "ids", ids |-> _parse_ride_ids(args.ridelog_links)])
    /\ UNCHANGED <<session, remote_total, op, inner, args, requests, locals>>

RequestOutcomes == {"response", "error response", "exception"}

RescanRequest_keeps_going ==
    /\ pc = "rescan"
    /\ Len(requests) < Len(args.ride_ids)
    /\ \E outcome \in RequestOutcomes :
        /\ requests' = Append(requests,
               [endpoint |-> "rescanbadges",
                id |-> Strip(args.ride_ids[Len(requests) + 1]),
                cookies |-> cookie, outcome |-> outcome])
        /\ Goto("rescan")
    /\ UNCHANGED <<session, remote_total, op, inner, args, locals>>

\* one iteration of the for loop of rescan_ridelogs_for_badges
RescanRequest ==
    /\ pc = "rescan"
    /\ Len(requests) < Len(args.ride_ids)
    /\ \E outcome \in RequestOutcomes :
        /\ requests' = Append(requests,
               [endpoint |-> "rescanbadges",
                id |-> Strip(args.ride_ids[Len(requests) + 1]),
                cookies |-> cookie, outcome |-> outcome])
        /\ IF outcome = "exception"
           THEN Return([kind |-> "bool", value |-> FALSE])   \* except Exception
           ELSE Goto("rescan")
    /\ UNCHANGED <<session, remote_total, op, inner, args, locals>>

RescanFinish ==
    /\ pc = "rescan"
    /\ Len(requests) = Len(args.ride_ids)
    /\ Return([kind |-> "bool", value |-> TRUE])
    /\ UNCHANGED <<session, remote_total, op, inner, args, requests, locals>>

\* check_cookie(): a cookie must be present, or the process ends
check_cookie ==
    /\ pc = "check_cookie"
    /\ IF cookie THEN Goto("bikes") ELSE Fatal("AuthenticationError")
    /\ UNCHANGED <<session, remote_total, op, inner, args, requests, locals>>

\* get_user_gear, from the bikes request on
get_user_gear ==
    /\ pc = "bikes"
    /\ \E page \in BikesPages :
        /\ requests' = Append(requests,
               [endpoint |-> "bikes", cookies |-> cookie, page |-> page])
        /\ IF ~page.table
           THEN Return([kind |-> "gear", user_gear |-> <<>>])   \* ValueError: no tables
           ELSE IF "model" \notin page.columns
           THEN Raise("KeyError")                               \* df["model"]
           ELSE IF "brand" \notin page.columns
           THEN Raise("AttributeError")                         \* df.brand
           ELSE Return([kind |-> "gear", user_gear |-> GearPairs(page.rows)])
    /\ UNCHANGED <<session, remote_total, op, inner, args, locals>>

NextUser ==
    \/ login
    \/ CallUser
    \/ GetUserRecentRides
    \/ get_user_info
    \/ ParseRideIds
    \/ RescanRequest
    \/ RescanFinish
    \/ check_cookie
    \/ get_user_gear

SpecUser == Init /\ [][NextUser]_vars


(***************************************************************************)
(* Properties of the Region client                                         *)
(***************************************************************************)
LastRequest == requests[Len(requests)]

Finished == pc \in {"returned", "raised", "exited"}

\* C1: a direct is_valid_region(s) call issues the one alias query and returns
\* False exactly when the query's `data` array is empty, True for every non-empty
\* array; so False for every s outside the remote index, True for every alias in it.
C1_IsValidRegion ==
    (op = "is_valid_region" /\ pc = "returned") =>
        /\ Len(requests) = 1
        /\ LastRequest.endpoint = "regions"
        /\ LastRequest.filter = <<"alias", args.region>>
        /\ result.kind = "bool"
        /\ (result.value = FALSE) <=> (Len(LastRequest.data) = 0)
        /\ (result.value = TRUE) <=> (Len(LastRequest.data) > 0)
        /\ (result.value = TRUE) <=> (args.region \in RemoteIndex)

C1_Witness ==
    /\ op = "is_valid_region"
    /\ pc = "returned"
    /\ result.value = TRUE
    /\ Len(LastRequest.data) > 1

\* C2: check_region returns True for every valid region; for an invalid region it
\* raises InvalidRegion exactly once, the process ends with status 1, no value is
\* returned, and credentials and cookie are left as they were.
C2_CheckRegionState ==
    (op = "check_region" /\ Finished) =>
        IF args.region \in RemoteIndex
        THEN /\ pc = "returned"
             /\ result = [kind |-> "bool", value |-> TRUE]
             /\ raised = <<>>
        ELSE /\ pc = "exited"
             /\ exit_status = 1
             /\ raised = <<"InvalidRegion">>
             /\ result = NoResult

C2_CheckRegion ==
    /\ []C2_CheckRegionState
    /\ [][(pc = "check" /\ op = "check_region") => session' = session]_vars

C2_Witness ==
    /\ op = "check_region"
    /\ pc = "exited"
    /\ args.region \notin RemoteIndex
    /\ cookie

DataEndpoints == {"region", "ridelogs", "trails"}

IsFetcherResponse(r) ==
    \/ r.endpoint \in DataEndpoints
    \/ r.endpoint = "regions" /\ op = "get_all_trailforks_regions"

\* C3: in every fetcher, a client without valid credentials ends fatally (status 1)
\* before any data request; and a 401 on any fetcher response is the last exchange
\* of the call: the process ends with status 1 through RegionLockedAPI, no later
\* page is requested and no table is returned, whatever was accumulated.
C3_Unauthorized ==
    op \in Decorated =>
        /\ (credentials # "valid" /\ pc # "auth") =>
              /\ pc = "exited"
              /\ exit_status = 1
              /\ result = NoResult
              /\ \A j \in 1..Len(requests) : ~IsFetcherResponse(requests[j])
        /\ \A j \in 1..Len(requests) :
              (IsFetcherResponse(requests[j]) /\ requests[j].status = HTTP_UNAUTHORIZED) =>
                  /\ j = Len(requests)
                  /\ pc = "exited"
                  /\ exit_status = 1
                  /\ raised = <<"RegionLockedAPI">>
                  /\ result = NoResult

C3_Witness ==
    /\ op = "get_region_ridecounts"
    /\ pc = "exited"
    /\ Len(dfs) >= 1
    /\ \E t \in Timestamps : dfs[1][t] > 0
    /\ LastRequest.endpoint = "ridelogs"
    /\ LastRequest.status = HTTP_UNAUTHORIZED
    /\ LastRequest.page = Len(dfs)

\* rows fetched by the ride-count loop so far
AccumulatedRows ==
    SumOver([i \in 1..Len(dfs) |-> SumOver(dfs[i], Timestamps)], 1..Len(dfs))

InRidecountsLoop == op = "get_region_ridecounts" /\ pc = "loop"

\* the ride-count loop has been left by its condition (not by a 401)
RidecountsLoopLeft == op = "get_region_ridecounts" /\ pc \in {"returned", "raised"}

\* rows accumulated when the latest page was requested
RowsBeforeLastPage == AccumulatedRows - SumOver(dfs[Len(dfs)], Timestamps)

\* C4 as stated: the ride-count loop requests a page only while the rows accumulated
\* so far are fewer than the reported total, and is left only once they reach it.
C4_StopsOnAccumulatedRows ==
    /\ (InRidecountsLoop /\ Len(dfs) >= 1) => RowsBeforeLastPage < total_ridelogs
    /\ RidecountsLoopLeft => AccumulatedRows >= total_ridelogs

\* C4 amended: the loop requests a page only while the rows requested so far (500
\* per page requested) are fewer than the reported total T, and is left only once
\* they reach T; so it ends after ceil(T / 500) page requests, whatever the pages hold.
C4_StopsOnRequestedRows ==
    /\ InRidecountsLoop =>
          /\ page_number = Len(dfs)
          /\ enumerated_results = ridecounts_rows_per_pull * Len(dfs)
          /\ Len(dfs) >= 1 => ridecounts_rows_per_pull * (Len(dfs) - 1) < total_ridelogs
    /\ (op = "get_region_ridecounts" /\ pc = "exited" /\ Len(requests) > 0
          /\ LastRequest.endpoint = "ridelogs") =>
          /\ LastRequest.page = Len(dfs)
          /\ ridecounts_rows_per_pull * Len(dfs) < total_ridelogs
    /\ RidecountsLoopLeft =>
          /\ ridecounts_rows_per_pull * Len(dfs) >= total_ridelogs
          /\ Len(dfs) >= 1 => ridecounts_rows_per_pull * (Len(dfs) - 1) < total_ridelogs
          /\ Len(SelectSeq(requests, LAMBDA r : r.endpoint = "ridelogs")) = Len(dfs)

C4_Witness ==
    /\ op = "get_region_ridecounts"
    /\ pc = "returned"
    /\ Len(dfs) = 2
    /\ AccumulatedRows < total_ridelogs

Day(created) == created \div SecondsPerDay

FetchedCount(t) == SumOver([i \in 1..Len(dfs) |-> dfs[i][t]], 1..Len(dfs))

FetchedOnDay(d) ==
    SumOver([t \in Timestamps |-> FetchedCount(t)], {t \in Timestamps : Day(t) = d})

RowDay(row) == DaysFromCivil(row.year, row.month, row.day)

\* C5: the table get_region_ridecounts returns has one row per distinct calendar
\* day among the fetched timestamps, each row's rides is the number of fetched
\* rides of that day, and the rows are in strictly descending day order.
C5_RideCountTable ==
    (op = "get_region_ridecounts" /\ pc = "returned") =>
        LET rows == result.rows
            days == {Day(t) : t \in {u \in Timestamps : FetchedCount(u) > 0}}
        IN /\ Len(rows) = Cardinality(days)
           /\ \A i \in 1..Len(rows) :
                 /\ RowDay(rows[i]) \in days
                 /\ rows[i].date = [year |-> rows[i].year, month |-> rows[i].month,
                                    day |-> rows[i].day]
                 /\ rows[i].rides = FetchedOnDay(RowDay(rows[i]))
           /\ \A i, j \in 1..Len(rows) : i < j => RowDay(rows[i]) > RowDay(rows[j])
           /\ SumOver([i \in 1..Len(rows) |-> rows[i].rides], 1..Len(rows)) = AccumulatedRows

C5_Witness ==
    /\ op = "get_region_ridecounts"
    /\ pc = "returned"
    /\ \A t \in Timestamps : FetchedCount(t) > 0
    /\ Len(result.rows) = 2
    /\ Len(dfs) = 2

RidelogPageRequests == SelectSeq(requests, LAMBDA r : r.endpoint = "ridelogs")

RECURSIVE RowsBefore(_, _)
RowsBefore(exchanges, j) ==
    IF j <= 1 THEN 0 ELSE RowsBefore(exchanges, j - 1) + Len(exchanges[j - 1].data)

\* C6: for a valid region, get_all_region_ridelogs(pages = n) requests the pages
\* 0, 1, ..., n-1 in ascending order with 100 rows each, empty or short pages do
\* not end the loop (only a 401 does), and the returned rows are the pages'
\* rows concatenated in page order.
C6_Ridelogs ==
    op = "get_all_region_ridelogs" =>
        LET pr == RidelogPageRequests IN
        /\ Len(pr) <= args.pages
        /\ \A j \in 1..Len(pr) :
              pr[j].page = j - 1 /\ pr[j].rows = ridelogs_rows_per_pull
        /\ pc = "loop" => page_number = Len(pr)
        /\ (pc \in {"returned", "raised"} /\ region_id # NoRegionId) => Len(pr) = args.pages
        /\ pc = "returned" =>
              /\ Len(result.rows) = RowsBefore(pr, Len(pr) + 1)
              /\ \A j \in 1..Len(pr) : \A k \in 1..Len(pr[j].data) :
                    result.rows[RowsBefore(pr, j) + k].created = pr[j].data[k]

C6_Witness ==
    /\ op = "get_all_region_ridelogs"
    /\ pc = "returned"
    /\ args.pages = 2
    /\ RidelogPageRequests[1].data = <<>>
    /\ Len(RidelogPageRequests[2].data) = 2
    /\ RidelogPageRequests[2].data[1] # RidelogPageRequests[2].data[2]

RegionPageRequests == SelectSeq(requests, LAMBDA r : r.endpoint = "regions")

\* the pages the bulk listing asks for: 0 .. number_of_regions / results_per_page
BulkPages == (number_of_regions \div results_per_page) + 1

\* how many of the index's `total` regions lie in the page that starts at row `first`
IndexRowsFrom(total, first) ==
    Cardinality({r \in first..(first + results_per_page - 1) : r < total})

\* C11: get_all_trailforks_regions requests the pages 0, 1, ..., 80 in ascending
\* order, 500 rows each, whatever the pages hold: an empty page neither ends the
\* loop nor fails the call (only a failed sign-in or a 401 ends it early), and the
\* result is all 81 received pages concatenated in page order.
C11_AllRegions ==
    op = "get_all_trailforks_regions" =>
        LET pr == RegionPageRequests IN
        /\ Len(pr) <= BulkPages
        /\ \A j \in 1..Len(pr) :
              pr[j].page = j - 1 /\ pr[j].rows = results_per_page
        /\ pc = "loop" => Len(dfs) = Len(pr)
        /\ pc # "raised"
        /\ pc = "exited" =>
              \/ credentials # "valid"
              \/ Len(pr) > 0 /\ pr[Len(pr)].status = HTTP_UNAUTHORIZED
        /\ pc = "returned" =>
              /\ Len(pr) = BulkPages
              /\ pr[BulkPages].page = 80
              /\ Len(result.pages) = BulkPages
              /\ \A j \in 1..BulkPages :
                    /\ result.pages[j].first = (j - 1) * results_per_page
                    /\ result.pages[j].count =
                          IndexRowsFrom(remote_total, (j - 1) * results_per_page)

C11_Witness ==
    /\ op = "get_all_trailforks_regions"
    /\ pc = "returned"
    /\ remote_total = 700
    /\ result.pages[2].count = 200
    /\ result.pages[3].count = 0
    /\ Len(RegionPageRequests) = 81

\* the methods that take a region
RegionScoped == Decorated \ {"get_all_trailforks_regions"}

\* the requests of the method body (the sign-in of the decorator left aside)
BodyRequests == SelectSeq(requests, LAMBDA r : r.endpoint # "login")

\* the j-th request was preceded by a validity query for the call's region that
\* found it
CheckedBefore(j) ==
    \E i \in 1..(j - 1) :
        /\ requests[i].endpoint = "regions"
        /\ requests[i].filter = <<"alias", args.region>>
        /\ Len(requests[i].data) > 0

\* C12: in every region-scoped operation each region-info, trail and ride-log
\* request comes after the sign-in and after a successful check_region of that
\* region; for an invalid region the validity query is the only request of the
\* method, no region id is looked up and the process ends (status 1).
C12_CheckPrecedesData ==
    op \in RegionScoped =>
        /\ \A j \in 1..Len(requests) :
              /\ requests[j].endpoint = "login" => j = 1
              /\ requests[j].endpoint \in DataEndpoints =>
                    /\ cookie
                    /\ credentials = "valid"
                    /\ args.region \in RemoteIndex
                    /\ CheckedBefore(j)
        /\ region_id # NoRegionId => CheckedBefore(Len(requests) + 1)
        /\ args.region \notin RemoteIndex =>
              /\ region_id = NoRegionId
              /\ Len(BodyRequests) <= 1
              /\ \A j \in 1..Len(BodyRequests) :
                    /\ BodyRequests[j].endpoint = "regions"
                    /\ BodyRequests[j].filter = <<"alias", args.region>>
              /\ pc \notin {"auth", "check"} => pc = "exited" /\ exit_status = 1
              /\ (pc = "exited" /\ cookie) =>
                    Len(BodyRequests) = 1 /\ raised = <<"InvalidRegion">>

C12_Witness ==
    /\ op = "get_region_ridecounts"
    /\ pc = "returned"
    /\ Len(requests) = 6
    /\ requests[1].endpoint = "login"
    /\ requests[2].endpoint = "regions"
    /\ requests[3].endpoint = "regions"
    /\ requests[4].endpoint = "region"
    /\ requests[5].endpoint = "ridelogs"
    /\ requests[6].endpoint = "ridelogs"

(***************************************************************************)
(* Properties of the TrailforksUser scraper                                *)
(***************************************************************************)
\* the text without its leading and trailing blanks
TrimOf(s) ==
    LET inked == {i \in 1..Len(s) : ~IsSpace(s[i])} IN
    IF inked = {} THEN <<>>
    ELSE SubSeq(s, CHOOSE i \in inked : \A j \in inked : i <= j,
                   CHOOSE i \in inked : \A j \in inked : i >= j)

Commas(s) == {i \in 1..Len(s) : s[i] = ","}

PartCount(s) == Cardinality(Commas(s)) + 1

\* where the n-th comma of s stands (0 before the text, Len(s) + 1 after it)
CommaAt(s, n) ==
    IF n = 0 THEN 0
    ELSE IF n > Cardinality(Commas(s)) THEN Len(s) + 1
    ELSE CHOOSE i \in Commas(s) : Cardinality({j \in Commas(s) : j < i}) = n - 1

\* the n-th part of the comma-split of s
Part(s, n) == SubSeq(s, CommaAt(s, n - 1) + 1, CommaAt(s, n) - 1)

LocationChars == LocationAlphabet \cup {"u", "n", "k", "o", "w", "U", "S", "A"}

\* C7: location extraction gives a (city, state, country) of strings: two parts ->
\* (part 1, part 2, "USA"); three parts -> (part 1, "unknown", part 3); any other
\* number of parts -> ("unknown", the whole text, "unknown"), all trimmed; no
\* location element -> ("unknown", "unknown", "unknown").
C7_Location ==
    (op = "get_user_info" /\ pc = "returned") =>
        LET page == LastRequest.page
            t == page.text
            loc == result.location
        IN /\ loc.city \in Seq(LocationChars)
           /\ loc.state \in Seq(LocationChars)
           /\ loc.country \in Seq(LocationChars)
           /\ loc = IF ~page.location THEN Triple(unknown, unknown, unknown)
                    ELSE IF PartCount(t) = 2
                    THEN Triple(TrimOf(Part(t, 1)), TrimOf(Part(t, 2)), USA)
                    ELSE IF PartCount(t) = 3
                    THEN Triple(TrimOf(Part(t, 1)), unknown, TrimOf(Part(t, 3)))
                    ELSE Triple(unknown, TrimOf(t), unknown)

C7_Witness ==
    /\ op = "get_user_info"
    /\ pc = "returned"
    /\ LastRequest.page.location
    /\ PartCount(LastRequest.page.text) = 3
    /\ TrimOf(Part(LastRequest.page.text, 2)) # <<>>
    /\ result.location.state = unknown
    /\ result.location.city # result.location.country

\* the link without the one newline that may end it
WithoutFinalNewline(link) ==
    IF link # <<>> /\ link[Len(link)] = "\n" THEN SubSeq(link, 1, Len(link) - 1) ELSE link

\* the link closes with "view/", exactly 8 decimal digits and its final "/"
EndsWithRideId(link) ==
    LET c == WithoutFinalNewline(link)
        n == Len(c)
    IN /\ n >= 14
       /\ c[n] = "/"
       /\ \A k \in (n - 8)..(n - 1) :
             c[k] \in {"0", "1", "2", "3", "4", "5", "6", "7", "8", "9"}
       /\ SubSeq(c, n - 13, n - 9) = <<"v", "i", "e", "w", "/">>

RideIdOf(link) ==
    LET c == WithoutFinalNewline(link) IN SubSeq(c, Len(c) - 8, Len(c) - 1)

\* the link contains, anywhere, "view/", exactly 8 decimal digits and a "/"
ContainsRideId(link) ==
    \E i \in 1..(Len(link) - 13) :
        /\ SubSeq(link, i, i + 4) = <<"v", "i", "e", "w", "/">>
        /\ \A k \in (i + 5)..(i + 12) :
              link[k] \in {"0", "1", "2", "3", "4", "5", "6", "7", "8", "9"}
        /\ link[i + 13] = "/"

\* C8 as stated: _parse_ride_ids keeps exactly the links that contain "view/"
\* followed by exactly 8 decimal digits and a closing "/", and drops every other.
C8_KeepsLinksContainingId ==
    (op = "_parse_ride_ids" /\ pc = "returned") =>
        Len(result.ids) = Len(SelectSeq(args.ridelog_links, ContainsRideId))

\* C8 amended: _parse_ride_ids returns, in input order, the 8-digit id of exactly
\* the links that end with "view/<8 digits>/" (one final newline after the "/"
\* aside); every other link, also one where more path follows the "/", is dropped;
\* so the ids are an order-preserving sub-list, as long as the links only when
\* every link matches.
C8_RideIds ==
    (op = "_parse_ride_ids" /\ pc = "returned") =>
        LET links == args.ridelog_links
            kept == SelectSeq(links, EndsWithRideId)
            ids == result.ids
        IN /\ ids = [i \in 1..Len(kept) |-> RideIdOf(kept[i])]
           /\ Len(ids) <= Len(links)
           /\ (Len(ids) = Len(links)) <=> (\A i \in 1..Len(links) : EndsWithRideId(links[i]))

C8_Witness ==
    /\ op = "_parse_ride_ids"
    /\ pc = "returned"
    /\ Len(args.ridelog_links) = 2
    /\ ~EndsWithRideId(args.ridelog_links[1])
    /\ ContainsRideId(args.ridelog_links[1])
    /\ EndsWithRideId(args.ridelog_links[2])
    /\ result.ids = <<<<"2", "0", "3", "6", "7", "8", "9", "0">>>>

\* C9: rescan_ridelogs_for_badges requests the ids one by one in list order, at
\* most once each; a request that raises is the last one and the result is False;
\* the result is True exactly when every id was requested without an exception;
\* the call never raises.
C9_Rescan ==
    op = "rescan_ridelogs_for_badges" =>
        /\ pc \notin {"raised", "exited"}
        /\ Len(requests) <= Len(args.ride_ids)
        /\ \A j \in 1..Len(requests) :
              /\ requests[j].endpoint = "rescanbadges"
              /\ requests[j].id = TrimOf(args.ride_ids[j])
              /\ requests[j].outcome = "exception" =>
                    /\ j = Len(requests)
                    /\ pc = "returned"
                    /\ result.value = FALSE
        /\ pc = "returned" =>
              (result.value = TRUE) <=>
                  /\ Len(requests) = Len(args.ride_ids)
                  /\ \A j \in 1..Len(requests) : requests[j].outcome # "exception"

C9_Witness ==
    /\ op = "rescan_ridelogs_for_badges"
    /\ pc = "returned"
    /\ Len(args.ride_ids) = 3
    /\ Len(requests) = 2
    /\ requests[1].outcome = "error response"
    /\ requests[2].outcome = "exception"
    /\ result.value = FALSE

\* C10 as stated: get_user_gear requests the bikes page only with a cookie; it
\* returns the (brand, model) pairs of the rows whose model is present, in table
\* order, and an empty list when the page has no table or the table has no model
\* column.
C10_GearAsClaimed ==
    op = "get_user_gear" =>
        /\ requests # <<>> => cookie /\ LastRequest.cookies
        /\ (~cookie /\ pc # "check_cookie") => pc = "exited" /\ requests = <<>>
        /\ (Finished /\ requests # <<>>) =>
              LET page == LastRequest.page IN
              /\ (~page.table \/ "model" \notin page.columns) =>
                    pc = "returned" /\ result.user_gear = <<>>
              /\ (page.table /\ {"brand", "model"} \subseteq page.columns) =>
                    /\ pc = "returned"
                    /\ result.user_gear =
                          LET kept == SelectSeq(page.rows, LAMBDA row : row.model # NaN)
                          IN [i \in 1..Len(kept) |-> <<kept[i].brand, kept[i].model>>]

====
